---------------------------- MODULE Spec2Model ----------------------------
(***************************************************************************)
(* The localStorage database layer of the NOUN portal (src/db.js).         *)
(*                                                                         *)
(* localStorage is a function from the keys that are present to their      *)
(* values; every collection is a sequence of records in insertion order.   *)
(* Records keep the fields the operations read or compare (ids, unique     *)
(* keys, foreign keys, score, grade, units, names); wall-clock fields      *)
(* (createdAt, updatedAt, ts, date, uploadedAt, submittedAt) and free-text *)
(* fields no operation reads (email, phone, department, level,             *)
(* studyCenter, staffId, title, type, filename, data, size) are left out.  *)
(* All modelled field values are strings and finite integers, which        *)
(* JSON.stringify / JSON.parse return unchanged.                           *)
(***************************************************************************)
EXTENDS Integers, Sequences, FiniteSets, TLC

VARIABLES
    localStorage,   \* window.localStorage: present key |-> stored value
    uidSeq,         \* per collection, the number of identifiers uid() made
    sessionStorage, \* window.sessionStorage: present key |-> stored value
    location,       \* window.location.href: the page shown
    ctx             \* per execution context (tab) on the store, the call it is
                    \* in: where it stands and its local variables

vars == <<localStorage, uidSeq, sessionStorage, location, ctx>>

(***************************************************************************)
(* Bounds of the model.                                                    *)
(***************************************************************************)
MaxUid == 4
    \* uid() is called at most this many times
MaxUidGrading == 5
\* the calls made in a run of two execution contexts
MaxCalls == 2
\* ... in a run of registrations and sessions
MaxUidAuth == 4
\* ... in a run of enrollments and materials
MaxUidMaterials == 5
\* ... in a run of registrations and feedback
MaxUidFeedback == 5
    \* the same, where only the registry and grading operations run

(***************************************************************************)
(* Inputs the callers are drawn from.                                      *)
(***************************************************************************)
Usernames == {"admin", "u1", "u2"}
Passwords == {"pw"}
Names     == {"N1"}
Matrics   == {"M1", "M2"}
Codes     == {"C1", "C2"}
Semesters == {"2024/2025", "2023/2024"}
Scores    == {39, 40, 70}
\* the units argument as the characters of its string form, which is what
\* parseInt reads: "2", "0", "-1", "abc"
UnitsInputs == { <<"2">>, <<"0">>, <<"-", "1">>, <<"a", "b", "c">> }
\* an identifier that no record carries
NoSuchId  == "id_none"
Ratings   == {1, 5}

(***************************************************************************)
(* Helpers (src/db.js 24-30).                                              *)
(***************************************************************************)
\* uid(): 'id_' + Date.now() + '_' + random suffix, an identifier no record
\* carries yet.  Its text is immaterial to every operation, which only
\* compares identifiers for equality: the model names the i-th identifier
\* made for a record of collection k after the collection and i.  n counts,
\* per collection, the identifiers made so far.
Collections == {"users", "students", "lecturers", "courses", "enrollments",
                "results", "materials", "audit_trail", "feedback"}
tick(n, k) == [n EXCEPT ![k] = @ + 1]
uid(n, k)  == "id_" \o k \o "_" \o ToString(n[k])
RECURSIVE SumOver(_, _)
SumOver(n, ks) ==
    IF ks = {} THEN 0
    ELSE LET k == CHOOSE x \in ks : TRUE IN n[k] + SumOver(n, ks \ {k})
UidCalls(n) == SumOver(n, Collections)

\* get(k): JSON.parse(localStorage.getItem('noun_'+k)) || []
get(ls, k) == IF ("noun_" \o k) \in DOMAIN ls THEN ls["noun_" \o k] ELSE <<>>

\* localStorage.setItem(key, value)
setItem(ls, key, v) == [x \in (DOMAIN ls) \cup {key} |-> IF x = key THEN v ELSE ls[x]]

\* set(k, v): localStorage.setItem('noun_'+k, JSON.stringify(v))
set(ls, k, v) == setItem(ls, "noun_" \o k, v)

\* Array.prototype.find / findIndex, given the indexes whose element passes
\* the test: the first of them, else 0 (JavaScript's undefined / -1).
findIndex(hits) ==
    IF hits = {} THEN 0 ELSE CHOOSE i \in hits : \A j \in hits : i <= j

\* scoreToGrade = s => s>=70?'A':s>=60?'B':s>=50?'C':s>=40?'D':'F'
scoreToGrade(s) ==
    IF s >= 70 THEN "A" ELSE IF s >= 60 THEN "B" ELSE IF s >= 50 THEN "C"
    ELSE IF s >= 40 THEN "D" ELSE "F"

(***************************************************************************)
(* Outcomes of a call: a returned value, or a thrown Error's message.      *)
(***************************************************************************)
Returned(v) == [threw |-> FALSE, val |-> v]
Thrown(msg) == [threw |-> TRUE, val |-> msg]
Undefined   == "undefined"

(***************************************************************************)
(* boot (src/db.js 33-45).                                                 *)
(***************************************************************************)
AdminUser ==
    [id |-> "admin_001", username |-> "admin", password |-> "admin123",
     role |-> "admin", name |-> "Portal Administrator"]

\* (variant: the boot flag is not looked at)
boot_Always(ls) ==
    LET s1 == set(ls, "users", <<AdminUser>>)
        s2 == set(set(set(s1, "students", <<>>), "lecturers", <<>>), "courses", <<>>)
        s3 == set(set(set(s2, "enrollments", <<>>), "results", <<>>), "materials", <<>>)
        s4 == set(set(s3, "audit_trail", <<>>), "feedback", <<>>)
    IN  setItem(s4, "noun_booted", "1")

boot(ls) ==
    IF "noun_booted" \notin DOMAIN ls
    THEN LET s1 == set(ls, "users", <<AdminUser>>)
             s2 == set(set(set(s1, "students", <<>>), "lecturers", <<>>), "courses", <<>>)
             s3 == set(set(set(s2, "enrollments", <<>>), "results", <<>>), "materials", <<>>)
             s4 == set(set(s3, "audit_trail", <<>>), "feedback", <<>>)
         IN  setItem(s4, "noun_booted", "1")
    ELSE ls

EmptyStorage == [x \in {} |-> <<>>]

(***************************************************************************)
(* Users, students, lecturers (src/db.js 77-102).  Every operation takes   *)
(* the storage and the uid count and yields the storage and count it       *)
(* leaves and its outcome.                                                 *)
(***************************************************************************)
\* the User is written before the matric is checked
addStudent_WritesFirst(ls, n, f) ==
    LET users == get(ls, "users") IN
    IF findIndex({i \in DOMAIN users : users[i].username = f.username}) # 0
    THEN [ls |-> ls, n |-> n, ret |-> Thrown("Username already exists.")]
    ELSE
      LET n1     == tick(n, "users")
          userId == uid(n1, "users")
          ls1    == set(ls, "users",
                        Append(users, [id |-> userId, username |-> f.username,
                               password |-> f.password, role |-> "student",
                               name |-> f.name]))
      IN  IF findIndex({i \in DOMAIN get(ls1, "students") :
                    get(ls1, "students")[i].matric = f.matric}) # 0
          THEN [ls |-> ls1, n |-> n1, ret |-> Thrown("Matric number already exists.")]
          ELSE
            LET n2        == tick(n1, "students")
                studentId == uid(n2, "students")
                ls2       == set(ls1, "students",
                                 Append(get(ls1, "students"),
                                        [id |-> studentId, userId |-> userId,
                                         matric |-> f.matric]))
            IN  [ls |-> ls2, n |-> n2, ret |-> Returned(studentId)]

\* the Student is linked by its own id, not the User's
addStudent_WrongLink(ls, n, f) ==
    LET users == get(ls, "users") IN
    IF findIndex({i \in DOMAIN users : users[i].username = f.username}) # 0
    THEN [ls |-> ls, n |-> n, ret |-> Thrown("Username already exists.")]
    ELSE IF findIndex({i \in DOMAIN get(ls, "students") :
                    get(ls, "students")[i].matric = f.matric}) # 0
    THEN [ls |-> ls, n |-> n, ret |-> Thrown("Matric number already exists.")]
    ELSE
      LET n1        == tick(n, "users")
          userId    == uid(n1, "users")
          ls1       == set(ls, "users",
                           Append(users, [id |-> userId, username |-> f.username,
                                  password |-> f.password, role |-> "student",
                                  name |-> f.name]))
          n2        == tick(n1, "students")
          studentId == uid(n2, "students")
          ls2       == set(ls1, "students",
                           Append(get(ls1, "students"),
                                  [id |-> studentId, userId |-> studentId,
                                   matric |-> f.matric]))
      IN  [ls |-> ls2, n |-> n2, ret |-> Returned(studentId)]

addStudent(ls, n, f) ==
    LET users == get(ls, "users") IN
    IF findIndex({i \in DOMAIN users : users[i].username = f.username}) # 0
    THEN [ls |-> ls, n |-> n, ret |-> Thrown("Username already exists.")]
    ELSE IF findIndex({i \in DOMAIN get(ls, "students") :
                    get(ls, "students")[i].matric = f.matric}) # 0
    THEN [ls |-> ls, n |-> n, ret |-> Thrown("Matric number already exists.")]
    ELSE
      LET n1        == tick(n, "users")
          userId    == uid(n1, "users")
          users2    == Append(users, [id |-> userId, username |-> f.username,
                              password |-> f.password, role |-> "student",
                              name |-> f.name])
          ls1       == set(ls, "users", users2)
          students  == get(ls1, "students")
          n2        == tick(n1, "students")
          studentId == uid(n2, "students")
          students2 == Append(students, [id |-> studentId, userId |-> userId,
                              matric |-> f.matric])
          ls2       == set(ls1, "students", students2)
      IN  [ls |-> ls2, n |-> n2, ret |-> Returned(studentId)]

\* the username is not checked
addLecturer_NoCheck(ls, n, f) ==
    LET n1         == tick(n, "users")
        userId     == uid(n1, "users")
        ls1        == set(ls, "users",
                          Append(get(ls, "users"),
                                 [id |-> userId, username |-> f.username,
                                  password |-> f.password, role |-> "lecturer",
                                  name |-> f.name]))
        n2         == tick(n1, "lecturers")
        lecturerId == uid(n2, "lecturers")
        ls2        == set(ls1, "lecturers",
                          Append(get(ls1, "lecturers"),
                                 [id |-> lecturerId, userId |-> userId]))
    IN  [ls |-> ls2, n |-> n2, ret |-> Returned(lecturerId)]

addLecturer(ls, n, f) ==
    LET users == get(ls, "users") IN
    IF findIndex({i \in DOMAIN users : users[i].username = f.username}) # 0
    THEN [ls |-> ls, n |-> n, ret |-> Thrown("Username already exists.")]
    ELSE
      LET n1         == tick(n, "users")
          userId     == uid(n1, "users")
          users2     == Append(users, [id |-> userId, username |-> f.username,
                               password |-> f.password, role |-> "lecturer",
                               name |-> f.name])
          ls1        == set(ls, "users", users2)
          lecturers  == get(ls1, "lecturers")
          n2         == tick(n1, "lecturers")
          lecturerId == uid(n2, "lecturers")
          lecturers2 == Append(lecturers, [id |-> lecturerId, userId |-> userId])
          ls2        == set(ls1, "lecturers", lecturers2)
      IN  [ls |-> ls2, n |-> n2, ret |-> Returned(lecturerId)]

(***************************************************************************)
(* Courses (src/db.js 111-124).                                            *)
(***************************************************************************)
DigitChars == <<"0", "1", "2", "3", "4", "5", "6", "7", "8", "9">>
IsDigit(c) == \E d \in 1..10 : DigitChars[d] = c
DigitVal(c) == (CHOOSE d \in 1..10 : DigitChars[d] = c) - 1
IsSpace(c) == c \in {" ", "\t", "\n"}

\* the value of the longest run of digits at the front of str, after acc
RECURSIVE DigitRun(_, _)
DigitRun(str, acc) ==
    IF str = <<>> \/ ~IsDigit(Head(str)) THEN acc
    ELSE DigitRun(Tail(str), 10 * acc + DigitVal(Head(str)))

RECURSIVE TrimStart(_)
TrimStart(str) ==
    IF str # <<>> /\ IsSpace(Head(str)) THEN TrimStart(Tail(str)) ELSE str

\* JavaScript's parseInt(x) of the characters of String(x), radix 10: leading
\* white space, an optional sign, then the longest run of digits; NaN when
\* there is no digit there.
NaN == [nan |-> TRUE, val |-> 0]
parseInt(str) ==
    LET s1   == TrimStart(str)
        sign == IF s1 # <<>> /\ Head(s1) = "-" THEN -1 ELSE 1
        s2   == IF s1 # <<>> /\ Head(s1) \in {"-", "+"} THEN Tail(s1) ELSE s1
    IN  IF s2 = <<>> \/ ~IsDigit(Head(s2)) THEN NaN
        ELSE [nan |-> FALSE, val |-> sign * DigitRun(s2, 0)]

\* x || d on a number x: d when x is falsy, which NaN and 0 are
OrDefault(x, d) == IF x.nan \/ x.val = 0 THEN d ELSE x.val

addCourse(ls, n, f) ==
    IF findIndex({i \in DOMAIN get(ls, "courses") :
                    get(ls, "courses")[i].code = f.code}) # 0
    THEN [ls |-> ls, n |-> n, ret |-> Thrown("Course code already exists.")]
    ELSE
      LET courses  == get(ls, "courses")
          n1       == tick(n, "courses")
          id       == uid(n1, "courses")
          courses2 == Append(courses, [id |-> id, code |-> f.code,
                             units |-> OrDefault(parseInt(f.units), 3),
                             lecturerId |-> f.lecturerId])
      IN  [ls |-> set(ls, "courses", courses2), n |-> n1, ret |-> Returned(id)]

assignLecturerToCourse(ls, n, courseId, lecturerId) ==
    LET courses == get(ls, "courses")
        c       == findIndex({i \in DOMAIN courses : courses[i].id = courseId})
    IN  IF c # 0
        THEN [ls |-> set(ls, "courses", [courses EXCEPT ![c].lecturerId = lecturerId]),
              n |-> n, ret |-> Returned(Undefined)]
        ELSE [ls |-> ls, n |-> n, ret |-> Returned(Undefined)]

(***************************************************************************)
(* Enrollments (src/db.js 137-142).                                        *)
(***************************************************************************)
enroll_NoCheck(ls, n, studentId, courseId, semester) ==
    LET n1   == tick(n, "enrollments")
        enr2 == Append(get(ls, "enrollments"),
                       [id |-> uid(n1, "enrollments"), studentId |-> studentId,
                        courseId |-> courseId, semester |-> semester])
    IN  [ls |-> set(ls, "enrollments", enr2), n |-> n1, ret |-> Returned(Undefined)]

enroll(ls, n, studentId, courseId, semester) ==
    LET enr == get(ls, "enrollments") IN
    IF findIndex({i \in DOMAIN enr :
                    enr[i].studentId = studentId /\ enr[i].courseId = courseId}) # 0
    THEN [ls |-> ls, n |-> n, ret |-> Returned(Undefined)]
    ELSE
      LET n1   == tick(n, "enrollments")
          enr2 == Append(enr, [id |-> uid(n1, "enrollments"), studentId |-> studentId,
                               courseId |-> courseId, semester |-> semester])
      IN  [ls |-> set(ls, "enrollments", enr2), n |-> n1,
           ret |-> Returned(Undefined)]

(***************************************************************************)
(* Audit trail (src/db.js 208-214).                                        *)
(***************************************************************************)
getAuditTrail(ls) == get(ls, "audit_trail")

addAuditEntry_Unshift(ls, n, f) ==
    LET n1     == tick(n, "audit_trail")
        trail2 == <<[id |-> uid(n1, "audit_trail"), actorId |-> f.actorId,
                     actorName |-> f.actorName, studentId |-> f.studentId,
                     courseId |-> f.courseId, oldGrade |-> f.oldGrade,
                     newGrade |-> f.newGrade, reason |-> f.reason]>>
                  \o get(ls, "audit_trail")
    IN  [ls |-> set(ls, "audit_trail", trail2), n |-> n1, ret |-> Returned(Undefined)]

addAuditEntry(ls, n, f) ==
    LET trail  == get(ls, "audit_trail")
        n1     == tick(n, "audit_trail")
        trail2 == Append(trail, [id |-> uid(n1, "audit_trail"), actorId |-> f.actorId,
                          actorName |-> f.actorName, studentId |-> f.studentId,
                          courseId |-> f.courseId, oldGrade |-> f.oldGrade,
                          newGrade |-> f.newGrade, reason |-> f.reason])
    IN  [ls |-> set(ls, "audit_trail", trail2), n |-> n1,
         ret |-> Returned(Undefined)]

(***************************************************************************)
(* Results (src/db.js 151-170).                                            *)
(***************************************************************************)
NoGrade == "-"      \* stands for the sentinel '—' of a first entry

findResult_Never(results, studentId, courseId) == 0

\* results.find(r => r.studentId===studentId && r.courseId===courseId), as the
\* index of the record found (0: none)
findResult(results, studentId, courseId) ==
    findIndex({i \in DOMAIN results :
                 results[i].studentId = studentId /\ results[i].courseId = courseId})

updateResult_KeepsGrade(ls, n, results, existing, studentId, courseId, score, newGrade, actorUser) ==
    LET oldGrade == results[existing].grade
        results2 == [results EXCEPT ![existing] =
                        [@ EXCEPT !.score = score, !.updatedBy = actorUser.name]]
    IN  addAuditEntry(set(ls, "results", results2), n,
            [actorId |-> actorUser.id, actorName |-> actorUser.name,
             studentId |-> studentId, courseId |-> courseId,
             oldGrade |-> oldGrade, newGrade |-> newGrade,
             reason |-> "Grade updated"])

updateResult_ReadsGradeLate(ls, n, results, existing, studentId, courseId, score, newGrade, actorUser) ==
    LET results2 == [results EXCEPT ![existing] =
                        [@ EXCEPT !.score = score, !.grade = newGrade,
                                  !.updatedBy = actorUser.name]]
        oldGrade == results2[existing].grade
    IN  addAuditEntry(set(ls, "results", results2), n,
            [actorId |-> actorUser.id, actorName |-> actorUser.name,
             studentId |-> studentId, courseId |-> courseId,
             oldGrade |-> oldGrade, newGrade |-> newGrade,
             reason |-> "Grade updated"])

\* the branch of upsertResult for a pair that has a Result (158-162)
updateResult(ls, n, results, existing, studentId, courseId, score, newGrade, actorUser) ==
    LET oldGrade == results[existing].grade
        results2 == [results EXCEPT ![existing] =
                        [@ EXCEPT !.score = score, !.grade = newGrade,
                                  !.updatedBy = actorUser.name]]
        ls1      == set(ls, "results", results2)
    IN  addAuditEntry(ls1, n,
            [actorId |-> actorUser.id, actorName |-> actorUser.name,
             studentId |-> studentId, courseId |-> courseId,
             oldGrade |-> oldGrade, newGrade |-> newGrade,
             reason |-> "Grade updated"])

insertResult_NoEnroll(ls, n, results, studentId, courseId, score, newGrade, actorUser) ==
    LET n1       == tick(n, "results")
        results2 == Append(results, [id |-> uid(n1, "results"),
                        studentId |-> studentId, courseId |-> courseId,
                        score |-> score, grade |-> newGrade,
                        semester |-> "2024/2025", updatedBy |-> actorUser.name])
    IN  addAuditEntry(set(ls, "results", results2), n1,
            [actorId |-> actorUser.id, actorName |-> actorUser.name,
             studentId |-> studentId, courseId |-> courseId,
             oldGrade |-> NoGrade, newGrade |-> newGrade,
             reason |-> "Result entered"])

\* the branch of upsertResult for a pair without a Result (164-168)
insertResult(ls, n, results, studentId, courseId, score, newGrade, actorUser) ==
    LET n1       == tick(n, "results")
        results2 == Append(results, [id |-> uid(n1, "results"),
                        studentId |-> studentId, courseId |-> courseId,
                        score |-> score, grade |-> newGrade,
                        semester |-> "2024/2025", updatedBy |-> actorUser.name])
        ls1      == set(ls, "results", results2)
        e        == enroll(ls1, n1, studentId, courseId, "2024/2025")
    IN  addAuditEntry(e.ls, e.n,
            [actorId |-> actorUser.id, actorName |-> actorUser.name,
             studentId |-> studentId, courseId |-> courseId,
             oldGrade |-> NoGrade, newGrade |-> newGrade,
             reason |-> "Result entered"])

upsertResult(ls, n, studentId, courseId, score, actorUser) ==
    LET results  == get(ls, "results")
        existing == findResult(results, studentId, courseId)
        newGrade == scoreToGrade(score)
    IN  IF existing # 0
        THEN updateResult(ls, n, results, existing, studentId, courseId, score,
                          newGrade, actorUser)
        ELSE insertResult(ls, n, results, studentId, courseId, score, newGrade,
                          actorUser)

(***************************************************************************)
(* Look-ups (src/db.js 72-75, 108, 132, 148).  Array.find yields the first  *)
(* element that passes or undefined; a value that may be missing is a       *)
(* sequence of at most one element, Nothing standing for undefined and null.*)
(***************************************************************************)
Found(v) == <<v>>
Nothing == <<>>

find(seq, hits) ==
    IF findIndex(hits) # 0 THEN Found(seq[findIndex(hits)]) ELSE Nothing

getUserById(ls, id) ==
    find(get(ls, "users"), {i \in DOMAIN get(ls, "users") : get(ls, "users")[i].id = id})

getCourseById(ls, id) ==
    find(get(ls, "courses"), {i \in DOMAIN get(ls, "courses") : get(ls, "courses")[i].id = id})

getEnrollmentsForStudent(ls, studentId) ==
    SelectSeq(get(ls, "enrollments"), LAMBDA e : e.studentId = studentId)

getResultsForStudent(ls, studentId) ==
    SelectSeq(get(ls, "results"), LAMBDA r : r.studentId = studentId)

(***************************************************************************)
(* Auth (src/db.js 50-63).  The session is the JSON text of a User under   *)
(* the key noun_session of sessionStorage; requireAuth and logout yield    *)
(* the sessionStorage they leave, the address they assign to               *)
(* window.location.href (Nothing when they assign none) and what they      *)
(* return.                                                                 *)
(***************************************************************************)
\* (variant: the role is not compared)
login_AnyRole(ls, username, password, role) ==
    LET us == get(ls, "users")
    IN  find(us, {i \in DOMAIN us : /\ us[i].username = username
                                    /\ us[i].password = password})

login(ls, username, password, role) ==
    LET us == get(ls, "users")
    IN  find(us, {i \in DOMAIN us : /\ us[i].username = username
                                    /\ us[i].password = password
                                    /\ us[i].role = role})

EntryPoint == "index.html"

\* sessionStorage.getItem of a missing key is null, and JSON.parse(null) null
currentUser(ss) ==
    IF "noun_session" \in DOMAIN ss THEN Found(ss["noun_session"]) ELSE Nothing

\* (variant: the roles are not looked at)
requireAuth_AnyRole(ss, roles) ==
    LET u == currentUser(ss)
    IN  IF u = Nothing
        THEN [ss |-> ss, href |-> Found(EntryPoint), ret |-> Nothing]
        ELSE [ss |-> ss, href |-> Nothing, ret |-> u]

requireAuth(ss, roles) ==
    LET u == currentUser(ss)
    IN  IF u = Nothing
        THEN [ss |-> ss, href |-> Found(EntryPoint), ret |-> Nothing]
        ELSE IF Len(roles) # 0 /\ ~(\E i \in DOMAIN roles : roles[i] = u[1].role)
        THEN [ss |-> ss, href |-> Found(EntryPoint), ret |-> Nothing]
        ELSE [ss |-> ss, href |-> Nothing, ret |-> u]

\* sessionStorage.removeItem
removeItem(ss, key) == [k \in (DOMAIN ss) \ {key} |-> ss[k]]

logout(ss) ==
    [ss |-> removeItem(ss, "noun_session"), href |-> Found(EntryPoint),
     ret |-> Returned(Undefined)]

(***************************************************************************)
(* calcGPA (src/db.js 172-183).                                            *)
(***************************************************************************)
\* gp, the points of a grade
gp == [A |-> 5, B |-> 4, C |-> 3, D |-> 2, F |-> 0]

\* units of a Result whose course is not stored
DefaultUnits == 3

\* Number.prototype.toFixed(2) of the quotient pts / units (units # 0): the
\* sign of a negative quotient, then the magnitude rounded to the nearest
\* hundredth, the larger one on a tie, as integer part, point and two
\* digits.  The quotient of two integers is a tie only on an odd number of
\* eighths, fortieths or two-hundredths; eighths are exact as doubles, the
\* others need |units| >= 40.
toFixed(pts, units) ==
    LET neg == (pts < 0 /\ units > 0) \/ (pts > 0 /\ units < 0)
        a   == IF pts < 0 THEN -pts ELSE pts
        b   == IF units < 0 THEN -units ELSE units
        n   == (200 * a + b) \div (2 * b)
    IN  (IF neg THEN "-" ELSE "") \o ToString(n \div 100) \o "."
            \o ToString((n % 100) \div 10) \o ToString(n % 10)

\* res.forEach: the points and units summed over the Results from i on
RECURSIVE forEachResult(_, _, _, _, _)
forEachResult(ls, res, i, pts, units) ==
    IF i > Len(res) THEN [pts |-> pts, units |-> units]
    ELSE LET c == getCourseById(ls, res[i].courseId)
             u == IF c # Nothing THEN c[1].units ELSE DefaultUnits
             g == IF res[i].grade \in DOMAIN gp THEN gp[res[i].grade] ELSE 0
         IN  forEachResult(ls, res, i + 1, pts + g * u, units + u)

calcGPA(ls, studentId) ==
    LET res == getResultsForStudent(ls, studentId)
        sum == forEachResult(ls, res, 1, 0, 0)
    IN  IF Len(res) = 0 THEN "0.00"
        ELSE IF sum.units # 0 THEN toFixed(sum.pts, sum.units) ELSE "0.00"

(***************************************************************************)
(* Materials (src/db.js 195-203).                                          *)
(***************************************************************************)
uploadMaterial(ls, n, courseId, uploadedBy) ==
    LET mats  == get(ls, "materials")
        n1    == tick(n, "materials")
        mats2 == Append(mats, [id |-> uid(n1, "materials"), courseId |-> courseId,
                               uploadedBy |-> uploadedBy.id,
                               uploaderName |-> uploadedBy.name])
    IN  [ls |-> set(ls, "materials", mats2), n |-> n1, ret |-> Returned(Undefined)]

\* (variant: the filter keeps the Material of that id and drops the others)
deleteMaterial_KeepsOnly(ls, n, id) ==
    [ls |-> set(ls, "materials", SelectSeq(get(ls, "materials"), LAMBDA m : m.id = id)),
     n |-> n, ret |-> Returned(Undefined)]

deleteMaterial(ls, n, id) ==
    [ls |-> set(ls, "materials", SelectSeq(get(ls, "materials"), LAMBDA m : m.id # id)),
     n |-> n, ret |-> Returned(Undefined)]

\* (variant: every Material is returned)
getMaterialsForStudent_All(ls, studentId) == get(ls, "materials")

getMaterialsForStudent(ls, studentId) ==
    LET enr == getEnrollmentsForStudent(ls, studentId)
        enrolled == [i \in DOMAIN enr |-> enr[i].courseId]
    IN  SelectSeq(get(ls, "materials"),
                  LAMBDA m : \E i \in DOMAIN enrolled : enrolled[i] = m.courseId)

(***************************************************************************)
(* Feedback (src/db.js 224-230).                                           *)
(***************************************************************************)
\* (variant: the entry is always pushed, a record of the user or not)
submitFeedback_AlwaysPush(ls, n, f) ==
    LET fb    == get(ls, "feedback")
        n1    == tick(n, "feedback")
        entry == [id |-> uid(n1, "feedback"), userId |-> f.userId, userName |-> f.userName,
                  role |-> f.role, easeOfUse |-> f.easeOfUse, speed |-> f.speed,
                  satisfaction |-> f.satisfaction, comments |-> f.comments]
    IN  [ls |-> set(ls, "feedback", Append(fb, entry)), n |-> n1,
         ret |-> Returned(Undefined)]

submitFeedback(ls, n, f) ==
    LET fb       == get(ls, "feedback")
        existing == findIndex({i \in DOMAIN fb : fb[i].userId = f.userId})
        n1       == tick(n, "feedback")
        entry    == [id |-> uid(n1, "feedback"), userId |-> f.userId, userName |-> f.userName,
                     role |-> f.role, easeOfUse |-> f.easeOfUse, speed |-> f.speed,
                     satisfaction |-> f.satisfaction, comments |-> f.comments]
        fb2      == IF existing # 0 THEN [fb EXCEPT ![existing] = entry]
                    ELSE Append(fb, entry)
    IN  [ls |-> set(ls, "feedback", fb2), n |-> n1, ret |-> Returned(Undefined)]

(***************************************************************************)
(* Helpers for the UI (src/db.js 237-265).  { ...a, ...b } has the         *)
(* properties of both objects, those of b where both have one; spreading   *)
(* undefined adds nothing.                                                 *)
(***************************************************************************)
EmptyObject == [k \in {} |-> ""]

Spread(a, b) ==
    [k \in (DOMAIN a) \cup (DOMAIN b) |-> IF k \in DOMAIN b THEN b[k] ELSE a[k]]

\* ...u of a value that may be undefined, and u || {}
ObjectOf(u) == IF u = Nothing THEN EmptyObject ELSE u[1]

studentFullProfile(ls, studentId) ==
    LET studs == get(ls, "students")
        s     == find(studs, {i \in DOMAIN studs : studs[i].id = studentId})
    IN  IF s = Nothing THEN Nothing
        ELSE Found(Spread(Spread(s[1], ObjectOf(getUserById(ls, s[1].userId))),
                          [studentId |-> studentId]))

lecturerFullProfile(ls, lecturerId) ==
    LET lects == get(ls, "lecturers")
        l     == find(lects, {i \in DOMAIN lects : lects[i].id = lecturerId})
    IN  IF l = Nothing THEN Nothing
        ELSE Found(Spread(Spread(l[1], ObjectOf(getUserById(ls, l[1].userId))),
                          [lecturerId |-> lecturerId]))

allStudentsWithProfiles(ls) ==
    [i \in DOMAIN get(ls, "students") |->
        LET s == get(ls, "students")[i]
        IN  Spread(Spread(ObjectOf(getUserById(ls, s.userId)), s), [studentId |-> s.id])]

allLecturersWithProfiles(ls) ==
    [i \in DOMAIN get(ls, "lecturers") |->
        LET l == get(ls, "lecturers")[i]
        IN  Spread(Spread(ObjectOf(getUserById(ls, l.userId)), l), [lecturerId |-> l.id])]

(***************************************************************************)
(* The public operations as actions.                                       *)
(***************************************************************************)
\* A call leaves the storage and the uid counts its operation yields; what it
\* returns or throws goes to the caller.  max caps the calls of uid().
Do(r, max) ==
    /\ UidCalls(r.n) <= max
    /\ localStorage' = r.ls
    /\ uidSeq' = r.n
    /\ UNCHANGED <<sessionStorage, location, ctx>>

\* the identifiers a caller can hold: those of the stored records of a
\* collection, and one that no record carries
Elems(seq) == {seq[i] : i \in 1..Len(seq)}
IdsOf(ls, k) == {x.id : x \in Elems(get(ls, k))}
IdInputs(k) == IdsOf(localStorage, k) \cup {NoSuchId}
Actors == Elems(get(localStorage, "users"))

StudentFields ==
    [username : Usernames, password : Passwords, name : Names, matric : Matrics]
LecturerFields ==
    [username : Usernames, password : Passwords, name : Names]
CourseFields ==
    [code : Codes, units : UnitsInputs,
     lecturerId : IdsOf(localStorage, "lecturers") \cup {""}]
AuditFields ==
    [actorId : {AdminUser.id}, actorName : {AdminUser.name},
     studentId : IdInputs("students"), courseId : IdInputs("courses"),
     oldGrade : {"A"}, newGrade : {"B"}, reason : {"Manual entry"}]
FeedbackFields ==
    {[userId |-> u.id, userName |-> u.name, role |-> u.role, easeOfUse |-> e,
      speed |-> 3, satisfaction |-> 3, comments |-> "ok"] :
        u \in Actors, e \in Ratings}

AddStudent(max) ==
    \E f \in StudentFields : Do(addStudent(localStorage, uidSeq, f), max)

AddLecturer(max) ==
    \E f \in LecturerFields : Do(addLecturer(localStorage, uidSeq, f), max)

AddCourse(max) ==
    \E f \in CourseFields : Do(addCourse(localStorage, uidSeq, f), max)

AssignLecturerToCourse(max) ==
    \E courseId \in IdInputs("courses"), lecturerId \in IdInputs("lecturers") :
        Do(assignLecturerToCourse(localStorage, uidSeq, courseId, lecturerId), max)

Enroll(max) ==
    \E studentId \in IdInputs("students"), courseId \in IdInputs("courses"),
       semester \in Semesters :
        Do(enroll(localStorage, uidSeq, studentId, courseId, semester), max)

UpsertResult(max) ==
    \E studentId \in IdInputs("students"), courseId \in IdInputs("courses"),
       score \in Scores, actorUser \in Actors :
        Do(upsertResult(localStorage, uidSeq, studentId, courseId, score, actorUser),
           max)

UploadMaterial(max) ==
    \E courseId \in IdInputs("courses"), uploadedBy \in Actors :
        Do(uploadMaterial(localStorage, uidSeq, courseId, uploadedBy), max)

DeleteMaterial(max) ==
    \E id \in IdInputs("materials") :
        Do(deleteMaterial(localStorage, uidSeq, id), max)

AddAuditEntry(max) ==
    \E f \in AuditFields : Do(addAuditEntry(localStorage, uidSeq, f), max)

SubmitFeedback(max) ==
    \E f \in FeedbackFields : Do(submitFeedback(localStorage, uidSeq, f), max)

\* the script is loaded again (a page load): boot() runs once more
Boot(max) ==
    Do([ls |-> boot(localStorage), n |-> uidSeq, ret |-> Returned(Undefined)], max)

(***************************************************************************)
(* Two execution contexts (tabs) on one store.  Each localStorage access   *)
(* of a call is a step of its own: get reads a whole collection into a     *)
(* local array, set writes the local array back as the whole collection    *)
(* (src/db.js 26-27), and the steps of the two contexts interleave.        *)
(***************************************************************************)
Contexts == {1, 2}

\* a context that has made no call
Idle ==
    [pc |-> "idle", op |-> "none", studentId |-> "", courseId |-> "", score |-> 0,
     snap |-> <<>>, oldGrade |-> "", calls |-> 0]

\* the call of x returns: its arrays are gone, what it was called with stays
\* on record
Return(x) ==
    [x EXCEPT !.pc = "idle", !.snap = <<>>, !.oldGrade = "", !.calls = @ + 1]

\* the calls begun so far
Begun(cx) == IF cx.pc = "idle" THEN cx.calls ELSE cx.calls + 1
CallsBegun == Begun(ctx[1]) + Begun(ctx[2])

\* the ids the two contexts pass; no operation looks them up
PairInputs == {<<"st_1", "crs_1">>, <<"st_2", "crs_1">>}

\* enroll, db.js 139: the pair is among the Enrollments read
enrollFound(enr, studentId, courseId) ==
    findIndex({i \in DOMAIN enr :
                 enr[i].studentId = studentId /\ enr[i].courseId = courseId}) # 0

\* (variant: the Enrollment is added to the collection as stored at the
\* write, not to the array read)
pushEnrollment_Merge(ls, n, enr, studentId, courseId, semester) ==
    LET n1 == tick(n, "enrollments")
    IN  [ls |-> set(ls, "enrollments",
                    Append(get(ls, "enrollments"),
                           [id |-> uid(n1, "enrollments"), studentId |-> studentId,
                            courseId |-> courseId, semester |-> semester])),
         n |-> n1]

\* enroll, db.js 140-141: enr.push(...); set('enrollments', enr)
pushEnrollment(ls, n, enr, studentId, courseId, semester) ==
    LET n1 == tick(n, "enrollments")
    IN  [ls |-> set(ls, "enrollments",
                    Append(enr, [id |-> uid(n1, "enrollments"), studentId |-> studentId,
                                 courseId |-> courseId, semester |-> semester])),
         n |-> n1]

\* addAuditEntry, db.js 212-213: trail.push(...); set('audit_trail', trail)
pushAuditEntry(ls, n, trail, f) ==
    LET n1 == tick(n, "audit_trail")
    IN  [ls |-> set(ls, "audit_trail",
                    Append(trail, [id |-> uid(n1, "audit_trail"), actorId |-> f.actorId,
                                   actorName |-> f.actorName, studentId |-> f.studentId,
                                   courseId |-> f.courseId, oldGrade |-> f.oldGrade,
                                   newGrade |-> f.newGrade, reason |-> f.reason])),
         n |-> n1]

\* upsertResult, db.js 153-164: the Result of the pair is rewritten in, or a
\* new one pushed to, the array read, and the array is written back
writeResult(ls, n, results, studentId, courseId, score, actorUser) ==
    LET existing == findResult(results, studentId, courseId)
        newGrade == scoreToGrade(score)
        n1       == tick(n, "results")
    IN  IF existing # 0
        THEN [ls |-> set(ls, "results",
                         [results EXCEPT ![existing] =
                             [@ EXCEPT !.score = score, !.grade = newGrade,
                                       !.updatedBy = actorUser.name]]),
              n |-> n, isNew |-> FALSE, oldGrade |-> results[existing].grade]
        ELSE [ls |-> set(ls, "results",
                         Append(results, [id |-> uid(n1, "results"),
                             studentId |-> studentId, courseId |-> courseId,
                             score |-> score, grade |-> newGrade,
                             semester |-> "2024/2025", updatedBy |-> actorUser.name])),
              n |-> n1, isNew |-> TRUE, oldGrade |-> NoGrade]

\* the audit entry upsertResult passes to addAuditEntry (db.js 162, 168)
auditOfUpsert(studentId, courseId, oldGrade, score, actorUser) ==
    [actorId |-> actorUser.id, actorName |-> actorUser.name,
     studentId |-> studentId, courseId |-> courseId,
     oldGrade |-> oldGrade, newGrade |-> scoreToGrade(score),
     reason |-> IF oldGrade = NoGrade THEN "Result entered" ELSE "Grade updated"]

\* context c goes on: its record becomes x, the store what its step leaves
Step(c, x, ls, n) ==
    /\ ctx' = [ctx EXCEPT ![c] = x]
    /\ localStorage' = ls
    /\ uidSeq' = n
    /\ UNCHANGED <<sessionStorage, location>>

\* enroll(studentId, courseId) is called: line 138 reads, line 139 returns
\* when the pair is enrolled
BeginEnroll(c) ==
    /\ ctx[c].pc = "idle"
    /\ CallsBegun < MaxCalls
    /\ \E pair \in PairInputs :
          LET enr == get(localStorage, "enrollments")
          IN  IF enrollFound(enr, pair[1], pair[2])
              THEN Step(c, Return([ctx[c] EXCEPT !.op = "enroll", !.score = 0,
                                                 !.studentId = pair[1],
                                                 !.courseId = pair[2]]),
                        localStorage, uidSeq)
              ELSE Step(c, [ctx[c] EXCEPT !.pc = "enroll_set", !.op = "enroll",
                                          !.score = 0,
                                          !.studentId = pair[1], !.courseId = pair[2],
                                          !.snap = enr],
                        localStorage, uidSeq)

\* lines 140-141 of enroll, called directly or by upsertResult
EnrollSet(c) ==
    /\ ctx[c].pc = "enroll_set"
    /\ LET r == pushEnrollment(localStorage, uidSeq, ctx[c].snap, ctx[c].studentId,
                               ctx[c].courseId, "2024/2025")
       IN  IF ctx[c].op = "upsert"
           THEN Step(c, [ctx[c] EXCEPT !.pc = "audit_get", !.snap = <<>>], r.ls, r.n)
           ELSE Step(c, Return(ctx[c]), r.ls, r.n)

\* upsertResult(studentId, courseId, score, admin) is called: line 152 reads
BeginUpsert(c) ==
    /\ ctx[c].pc = "idle"
    /\ CallsBegun < MaxCalls
    /\ \E pair \in PairInputs, score \in Scores :
          Step(c, [ctx[c] EXCEPT !.pc = "results_set", !.op = "upsert",
                                 !.studentId = pair[1], !.courseId = pair[2],
                                 !.score = score,
                                 !.snap = get(localStorage, "results")],
               localStorage, uidSeq)

\* lines 153-164 of upsertResult
ResultsSet(c) ==
    /\ ctx[c].pc = "results_set"
    /\ LET r == writeResult(localStorage, uidSeq, ctx[c].snap, ctx[c].studentId,
                            ctx[c].courseId, ctx[c].score, AdminUser)
       IN  Step(c, [ctx[c] EXCEPT !.pc = IF r.isNew THEN "enroll_get" ELSE "audit_get",
                                  !.oldGrade = r.oldGrade, !.snap = <<>>],
                r.ls, r.n)

\* upsertResult calls enroll (line 166): lines 138-139
EnrollGet(c) ==
    /\ ctx[c].pc = "enroll_get"
    /\ LET enr == get(localStorage, "enrollments")
       IN  IF enrollFound(enr, ctx[c].studentId, ctx[c].courseId)
           THEN Step(c, [ctx[c] EXCEPT !.pc = "audit_get"], localStorage, uidSeq)
           ELSE Step(c, [ctx[c] EXCEPT !.pc = "enroll_set", !.snap = enr],
                     localStorage, uidSeq)

\* upsertResult calls addAuditEntry (lines 162, 168): line 211 reads
AuditGet(c) ==
    /\ ctx[c].pc = "audit_get"
    /\ Step(c, [ctx[c] EXCEPT !.pc = "audit_set",
                              !.snap = get(localStorage, "audit_trail")],
            localStorage, uidSeq)

\* lines 212-213 of addAuditEntry
AuditSet(c) ==
    /\ ctx[c].pc = "audit_set"
    /\ LET r == pushAuditEntry(localStorage, uidSeq, ctx[c].snap,
                               auditOfUpsert(ctx[c].studentId, ctx[c].courseId,
                                             ctx[c].oldGrade, ctx[c].score, AdminUser))
       IN  Step(c, Return(ctx[c]), r.ls, r.n)

\* what the arguments of login are drawn from
Roles == {"admin", "student", "lecturer"}
LoginPasswords == Passwords \cup {AdminUser.password, "wrong"}

\* the roles arrays the pages pass to requireAuth
RoleArrays == {<<>>, <<"admin">>, <<"student">>, <<"lecturer", "admin">>}

\* the pages of the portal: the entry point and a page behind requireAuth
Pages == {EntryPoint, "portal.html"}

\* The entry page signs a user in: it stores the User that login returned
\* in the session slot.
SignIn ==
    /\ \E un \in Usernames, pw \in LoginPasswords, role \in Roles :
          LET u == login(localStorage, un, pw, role)
          IN  /\ u # Nothing
              /\ sessionStorage' = setItem(sessionStorage, "noun_session", u[1])
    /\ UNCHANGED <<localStorage, uidSeq, location, ctx>>

\* the browser is taken to a page
Visit ==
    /\ \E page \in Pages : location' = page
    /\ UNCHANGED <<localStorage, uidSeq, sessionStorage, ctx>>

\* a call of requireAuth or logout leaves the session and the address its
\* operation yields
DoAuth(r) ==
    /\ sessionStorage' = r.ss
    /\ location' = (IF r.href = Nothing THEN location ELSE r.href[1])
    /\ UNCHANGED <<localStorage, uidSeq, ctx>>

RequireAuth ==
    \E roles \in RoleArrays : DoAuth(requireAuth(sessionStorage, roles))

Logout == DoAuth(logout(sessionStorage))

\* the script has been loaded for the first time, on the entry page, with
\* nobody signed in
Init ==
    /\ localStorage = boot(EmptyStorage)
    /\ uidSeq = [k \in Collections |-> 0]
    /\ sessionStorage = EmptyStorage
    /\ location = "index.html"
    /\ ctx = [c \in Contexts |-> Idle]

\* every public operation that writes, and the reload
Next ==
    \/ AddStudent(MaxUid)
    \/ AddLecturer(MaxUid)
    \/ AddCourse(MaxUid)
    \/ AssignLecturerToCourse(MaxUid)
    \/ Enroll(MaxUid)
    \/ UpsertResult(MaxUid)
    \/ UploadMaterial(MaxUid)
    \/ DeleteMaterial(MaxUid)
    \/ AddAuditEntry(MaxUid)
    \/ SubmitFeedback(MaxUid)
    \/ Boot(MaxUid)

Spec == Init /\ [][Next]_vars

\* the operations on students, courses, enrollments, results and the audit
\* trail, followed one identifier further
NextGrading ==
    \/ AddStudent(MaxUidGrading)
    \/ AddCourse(MaxUidGrading)
    \/ Enroll(MaxUidGrading)
    \/ UpsertResult(MaxUidGrading)
    \/ AddAuditEntry(MaxUidGrading)

SpecGrading == Init /\ [][NextGrading]_vars

\* users are registered, sign in, visit pages and sign out
NextAuth ==
    \/ AddStudent(MaxUidAuth)
    \/ AddLecturer(MaxUidAuth)
    \/ SignIn
    \/ Visit
    \/ RequireAuth
    \/ Logout

SpecAuth == Init /\ [][NextAuth]_vars

\* students are enrolled and graded while materials come and go
NextMaterials ==
    \/ AddStudent(MaxUidMaterials)
    \/ AddCourse(MaxUidMaterials)
    \/ Enroll(MaxUidMaterials)
    \/ UpsertResult(MaxUidMaterials)
    \/ UploadMaterial(MaxUidMaterials)
    \/ DeleteMaterial(MaxUidMaterials)

SpecMaterials == Init /\ [][NextMaterials]_vars

\* two contexts enroll and grade on one store, step by step
NextConcurrent ==
    \E c \in Contexts :
        \/ BeginEnroll(c)
        \/ EnrollSet(c)
        \/ BeginUpsert(c)
        \/ ResultsSet(c)
        \/ EnrollGet(c)
        \/ AuditGet(c)
        \/ AuditSet(c)

SpecConcurrent == Init /\ [][NextConcurrent]_vars

\* users are registered and feedback is submitted
NextFeedback ==
    \/ AddStudent(MaxUidFeedback)
    \/ SubmitFeedback(MaxUidFeedback)

SpecFeedback == Init /\ [][NextFeedback]_vars

(***************************************************************************)
(* The stored collections, and what a call made in the current state       *)
(* would leave.                                                            *)
(***************************************************************************)
users       == get(localStorage, "users")
students    == get(localStorage, "students")
lecturers   == get(localStorage, "lecturers")
courses     == get(localStorage, "courses")
enrollments == get(localStorage, "enrollments")
results     == get(localStorage, "results")
audit_trail == get(localStorage, "audit_trail")
materials   == get(localStorage, "materials")
feedback    == get(localStorage, "feedback")

SamePair(x, studentId, courseId) == x.studentId = studentId /\ x.courseId = courseId
IsPrefix(p, q) == Len(p) <= Len(q) /\ \A i \in 1..Len(p) : p[i] = q[i]
Last(seq) == seq[Len(seq)]
ScoreDomain == (-5)..105
WrittenByUpsert(a) == a.reason \in {"Result entered", "Grade updated"}

(***************************************************************************)
(* C1: the results collection holds at most one Result for each            *)
(* (studentId, courseId) pair; an upsertResult on a pair that has a Result *)
(* overwrites that record where it is and adds no second one.              *)
(***************************************************************************)
C1_OneResultPerPair ==
    /\ \A i, j \in 1..Len(results) :
          SamePair(results[i], results[j].studentId, results[j].courseId) => i = j
    /\ \A studentId \in IdInputs("students"), courseId \in IdInputs("courses"),
          score \in Scores, actorUser \in Actors :
          LET after == get(upsertResult(localStorage, uidSeq, studentId, courseId,
                                        score, actorUser).ls, "results")
          IN  \A i \in 1..Len(results) :
                SamePair(results[i], studentId, courseId) =>
                    /\ Len(after) = Len(results)
                    /\ after[i].id = results[i].id
                    /\ after[i].score = score
                    /\ \A j \in 1..Len(results) : j # i => after[j] = results[j]

\* a Result of a stored course that a second upsertResult has overwritten
C1_Witness ==
    /\ Len(results) >= 1
    /\ \E i \in 1..Len(results), k \in 1..Len(audit_trail) :
          /\ SamePair(audit_trail[k], results[i].studentId, results[i].courseId)
          /\ audit_trail[k].reason = "Grade updated"
          /\ results[i].courseId # NoSuchId

(***************************************************************************)
(* C2: grading implies enrollment.  For every Result there is an           *)
(* Enrollment with the same (studentId, courseId), and an upsertResult on  *)
(* any pair leaves that pair enrolled.                                     *)
(***************************************************************************)
Enrolled(ls, studentId, courseId) ==
    \E e \in Elems(get(ls, "enrollments")) : SamePair(e, studentId, courseId)

C2_GradedIsEnrolled ==
    /\ \A r \in Elems(results) : Enrolled(localStorage, r.studentId, r.courseId)
    /\ \A studentId \in IdInputs("students"), courseId \in IdInputs("courses"),
          score \in Scores, actorUser \in Actors :
          Enrolled(upsertResult(localStorage, uidSeq, studentId, courseId, score,
                                actorUser).ls, studentId, courseId)

\* a graded pair whose only enrollment is the one upsertResult made: no
\* enroll call made one (uid() ran once for a Result and once for an Enrollment)
C2_Witness ==
    /\ Len(results) = 1 /\ Len(enrollments) = 1
    /\ uidSeq["enrollments"] = 1
    /\ SamePair(enrollments[1], results[1].studentId, results[1].courseId)
    /\ results[1].courseId # NoSuchId

(***************************************************************************)
(* C3: every upsertResult call appends exactly one AuditEntry, also when   *)
(* the score is unchanged: newGrade is the grade of the score, oldGrade    *)
(* the grade the pair's Result had before the call (reason "Grade          *)
(* updated") or the sentinel when it had none (reason "Result entered").   *)
(* So the entries upsertResult wrote for one pair chain: each oldGrade is  *)
(* the previous entry's newGrade, the first is the sentinel, and the last  *)
(* newGrade is the grade stored in the Result.                             *)
(***************************************************************************)
UpsertEntries(studentId, courseId) ==
    SelectSeq(audit_trail,
              LAMBDA a : SamePair(a, studentId, courseId) /\ WrittenByUpsert(a))

C3_AuditPerUpsert ==
    /\ \A studentId \in IdInputs("students"), courseId \in IdInputs("courses"),
          score \in Scores, actorUser \in Actors :
          LET after == get(upsertResult(localStorage, uidSeq, studentId, courseId,
                                        score, actorUser).ls, "audit_trail")
              i     == findIndex({k \in DOMAIN results : SamePair(results[k], studentId, courseId)})
          IN  /\ Len(after) = Len(audit_trail) + 1
              /\ IsPrefix(audit_trail, after)
              /\ SamePair(Last(after), studentId, courseId)
              /\ Last(after).newGrade = scoreToGrade(score)
              /\ i # 0 => /\ Last(after).oldGrade = results[i].grade
                          /\ Last(after).reason = "Grade updated"
              /\ i = 0 => /\ Last(after).oldGrade = NoGrade
                          /\ Last(after).reason = "Result entered"
    /\ \A studentId \in IdInputs("students"), courseId \in IdInputs("courses") :
          LET es == UpsertEntries(studentId, courseId)
              i  == findIndex({k \in DOMAIN results : SamePair(results[k], studentId, courseId)})
          IN  /\ (es = <<>>) <=> (i = 0)
              /\ es # <<>> =>
                    /\ es[1].oldGrade = NoGrade
                    /\ \A k \in 2..Len(es) : es[k].oldGrade = es[k - 1].newGrade
                    /\ Last(es).newGrade = results[i].grade

\* a pair graded twice, the second time with another grade
C3_Witness ==
    \E r \in Elems(results) :
        LET es == UpsertEntries(r.studentId, r.courseId)
        IN  /\ Len(es) >= 2
            /\ es[2].oldGrade # es[2].newGrade
            /\ es[2].reason = "Grade updated"

(***************************************************************************)
(* C4: the audit trail is append-only.  Across every step the trail before *)
(* is a prefix of the trail after; addAuditEntry makes it exactly one      *)
(* entry longer, the new entry last; getAuditTrail returns the stored      *)
(* sequence, which is the insertion order.                                 *)
(***************************************************************************)
C4_AddAppendsOne ==
    \A f \in AuditFields :
        LET after == getAuditTrail(addAuditEntry(localStorage, uidSeq, f).ls)
        IN  /\ Len(after) = Len(audit_trail) + 1
            /\ IsPrefix(getAuditTrail(localStorage), after)
            /\ Last(after).studentId = f.studentId
            /\ Last(after).courseId = f.courseId
            /\ Last(after).reason = f.reason

C4_AppendOnly ==
    /\ [][IsPrefix(audit_trail, audit_trail')]_vars
    /\ []C4_AddAppendsOne

\* a trail holding an entry upsertResult wrote and, after it, one added directly
C4_Witness ==
    /\ Len(audit_trail) >= 2
    /\ audit_trail[1].reason = "Result entered"
    /\ Last(audit_trail).reason = "Manual entry"

(***************************************************************************)
(* C5: scoreToGrade(s) is A iff s >= 70, B iff 60 <= s < 70, C iff         *)
(* 50 <= s < 60, D iff 40 <= s < 50, F iff s < 40 (scores above 100 give   *)
(* A), and every stored Result's grade is scoreToGrade of its score.       *)
(***************************************************************************)
C5_GradeFromScore ==
    /\ \A s \in ScoreDomain :
          /\ (scoreToGrade(s) = "A") <=> (s >= 70)
          /\ (scoreToGrade(s) = "B") <=> (60 <= s /\ s < 70)
          /\ (scoreToGrade(s) = "C") <=> (50 <= s /\ s < 60)
          /\ (scoreToGrade(s) = "D") <=> (40 <= s /\ s < 50)
          /\ (scoreToGrade(s) = "F") <=> (s < 40)
    /\ \A r \in Elems(results) : r.grade = scoreToGrade(r.score)

\* a Result whose score an upsertResult has changed to one of another grade
C5_Witness ==
    \E r \in Elems(results), a \in Elems(audit_trail) :
        /\ SamePair(a, r.studentId, r.courseId)
        /\ a.reason = "Grade updated"
        /\ a.oldGrade # a.newGrade
        /\ a.newGrade = r.grade

(***************************************************************************)
(* C6: enroll is idempotent.  There is never more than one Enrollment for  *)
(* a (studentId, courseId) pair, whatever other calls (upsertResult for    *)
(* the pair included) came between; after an enroll call, with any         *)
(* semester, the pair has exactly one, and a call on an enrolled pair      *)
(* leaves the storage as it was.                                           *)
(***************************************************************************)
EnrollmentsOf(ls, studentId, courseId) ==
    SelectSeq(get(ls, "enrollments"), LAMBDA e : SamePair(e, studentId, courseId))

C6_EnrollIdempotent ==
    /\ \A e \in Elems(enrollments) :
          Len(EnrollmentsOf(localStorage, e.studentId, e.courseId)) = 1
    /\ \A studentId \in IdInputs("students"), courseId \in IdInputs("courses"),
          semester \in Semesters :
          LET r == enroll(localStorage, uidSeq, studentId, courseId, semester)
          IN  /\ Len(EnrollmentsOf(r.ls, studentId, courseId)) = 1
              /\ Enrolled(localStorage, studentId, courseId) =>
                    r.ls = localStorage /\ r.n = uidSeq
              /\ LET again == enroll(r.ls, r.n, studentId, courseId, semester)
                 IN  again.ls = r.ls /\ again.n = r.n

\* a pair of a stored course that enroll enrolled (in a semester upsertResult
\* never uses) and that upsertResult graded as well
C6_Witness ==
    \E e \in Elems(enrollments), r \in Elems(results) :
        /\ SamePair(r, e.studentId, e.courseId)
        /\ e.semester = "2023/2024"
        /\ e.courseId # NoSuchId

(***************************************************************************)
(* C7: a rejected add has no effect.  addStudent with a username or a      *)
(* matric that exists, addLecturer with a username that exists and         *)
(* addCourse with a code that exists throw (DuplicateKey) and leave every  *)
(* collection and the uid counts as they were; a matric-duplicate          *)
(* addStudent with a new username creates no User.                         *)
(***************************************************************************)
UsernameTaken(username) == \E u \in Elems(users) : u.username = username
MatricTaken(matric) == \E st \in Elems(students) : st.matric = matric
CodeTaken(code) == \E c \in Elems(courses) : c.code = code
Rejected(r) == r.ret.threw /\ r.ls = localStorage /\ r.n = uidSeq

C7_RejectedAddHasNoEffect ==
    /\ \A f \in StudentFields :
          LET r == addStudent(localStorage, uidSeq, f)
          IN  /\ (UsernameTaken(f.username) \/ MatricTaken(f.matric)) => Rejected(r)
              /\ r.ret.threw => Rejected(r)
    /\ \A f \in LecturerFields :
          LET r == addLecturer(localStorage, uidSeq, f)
          IN  /\ UsernameTaken(f.username) => Rejected(r)
              /\ r.ret.threw => Rejected(r)
    /\ \A f \in CourseFields :
          LET r == addCourse(localStorage, uidSeq, f)
          IN  /\ CodeTaken(f.code) => Rejected(r)
              /\ r.ret.threw => Rejected(r)

\* a state where addStudent with a new username is rejected for its matric, and
\* where addLecturer and addCourse have a duplicate to reject
C7_Witness ==
    /\ \E f \in StudentFields :
          /\ ~UsernameTaken(f.username)
          /\ MatricTaken(f.matric)
          /\ addStudent(localStorage, uidSeq, f).ret = Thrown("Matric number already exists.")
    /\ \E f \in CourseFields :
          addCourse(localStorage, uidSeq, f).ret = Thrown("Course code already exists.")

(***************************************************************************)
(* C8: after any sequence of addStudent, addLecturer and addCourse calls   *)
(* no two Users share a username (the seeded admin's included), no two     *)
(* Students share a matric and no two Courses share a code.                *)
(***************************************************************************)
C8_UniqueKeys ==
    /\ \A i, j \in 1..Len(users) : users[i].username = users[j].username => i = j
    /\ \A i, j \in 1..Len(students) : students[i].matric = students[j].matric => i = j
    /\ \A i, j \in 1..Len(courses) : courses[i].code = courses[j].code => i = j

\* a student, a lecturer and the admin
C8_Witness ==
    /\ Len(users) = 3
    /\ Len(students) = 1
    /\ Len(lecturers) = 1

(***************************************************************************)
(* C9: a successful addStudent adds exactly one User, of role student, and *)
(* exactly one Student whose userId is that User's id, and returns the     *)
(* Student's id.  So every Student's userId is the id of a stored User of  *)
(* role student, every Lecturer's that of a User of role lecturer, and no  *)
(* User is referred to by two role records.                                *)
(***************************************************************************)
RoleRecords == students \o lecturers

C9_UserAndStudentAsOne ==
    /\ \A f \in StudentFields :
          LET r      == addStudent(localStorage, uidSeq, f)
              users2 == get(r.ls, "users")
              studs2 == get(r.ls, "students")
          IN  ~r.ret.threw =>
                /\ Len(users2) = Len(users) + 1 /\ IsPrefix(users, users2)
                /\ Len(studs2) = Len(students) + 1 /\ IsPrefix(students, studs2)
                /\ Last(users2).role = "student"
                /\ Last(users2).username = f.username
                /\ Last(users2).id \notin IdsOf(localStorage, "users")
                /\ Last(studs2).userId = Last(users2).id
                /\ Last(studs2).matric = f.matric
                /\ Last(studs2).id \notin IdsOf(localStorage, "students")
                /\ r.ret.val = Last(studs2).id
    /\ \A st \in Elems(students) :
          \E u \in Elems(users) : u.id = st.userId /\ u.role = "student"
    /\ \A l \in Elems(lecturers) :
          \E u \in Elems(users) : u.id = l.userId /\ u.role = "lecturer"
    /\ \A i, j \in 1..Len(RoleRecords) :
          RoleRecords[i].userId = RoleRecords[j].userId => i = j

\* two students, each with its own User
C9_Witness ==
    /\ Len(students) = 2
    /\ Len(users) = 3
    /\ students[1].userId # students[2].userId

(***************************************************************************)
(* C10: addCourse stores units as the integer value of the units argument, *)
(* and 3 only when that argument has no integer value; every stored        *)
(* Course has units >= 0 (units 0 is stored as 0).                         *)
(***************************************************************************)
C10_UnitsAsGiven ==
    [][\A f \in CourseFields :
          LET r == addCourse(localStorage, uidSeq, f)
              v == parseInt(f.units)
          IN  (~r.ret.threw /\ localStorage' = r.ls /\ uidSeq' = r.n) =>
                /\ Last(courses').units = (IF v.nan THEN 3 ELSE v.val)
                /\ \A c \in Elems(courses') : c.units >= 0]_vars

(***************************************************************************)
(* C11: calcGPA(studentId) is the average of the grade points (A=5, B=4,   *)
(* C=3, D=2, F=0) of the student's Results, each weighted by the units of  *)
(* the Result's course, written with two decimals, and "0.00" when the     *)
(* student has no Results or the units add up to zero.  The units come     *)
(* from the stored Course of the Result; a Result whose courseId names no  *)
(* stored Course has no course to take units from and adds nothing.        *)
(* calcGPA only reads: the operator yields a string and no storage.        *)
(***************************************************************************)
GradePoints(g) ==
    CASE g = "A" -> 5 [] g = "B" -> 4 [] g = "C" -> 3 [] g = "D" -> 2 [] OTHER -> 0

ResultsOfStudent(s) == {i \in DOMAIN results : results[i].studentId = s}

\* the units of the stored Course of a Result, or missing when none is stored
CourseUnits(r, missing) ==
    IF \E c \in Elems(courses) : c.id = r.courseId
    THEN (CHOOSE c \in Elems(courses) : c.id = r.courseId).units
    ELSE missing

RECURSIVE TotalUnits(_, _)
TotalUnits(is, missing) ==
    IF is = {} THEN 0
    ELSE LET i == CHOOSE x \in is : TRUE
         IN  CourseUnits(results[i], missing) + TotalUnits(is \ {i}, missing)

RECURSIVE TotalPoints(_, _)
TotalPoints(is, missing) ==
    IF is = {} THEN 0
    ELSE LET i == CHOOSE x \in is : TRUE
         IN  GradePoints(results[i].grade) * CourseUnits(results[i], missing)
                 + TotalPoints(is \ {i}, missing)

Abs(x) == IF x < 0 THEN -x ELSE x

\* p / u (u # 0) to the nearest hundredth, halves away from zero, as text
TwoDecimals(p, u) ==
    LET q == (100 * Abs(p)) \div Abs(u)
        h == CHOOSE x \in {q, q + 1} :
                 /\ 2 * x * Abs(u) <= 200 * Abs(p) + Abs(u)
                 /\ 200 * Abs(p) + Abs(u) < 2 * (x + 1) * Abs(u)
        d == [k \in 0..9 |-> ToString(k)]
    IN  (IF p * u < 0 THEN "-" ELSE "") \o ToString(h \div 100) \o "."
            \o d[(h \div 10) % 10] \o d[h % 10]

WeightedAverage(s, missing) ==
    IF ResultsOfStudent(s) = {} \/ TotalUnits(ResultsOfStudent(s), missing) = 0
    THEN "0.00"
    ELSE TwoDecimals(TotalPoints(ResultsOfStudent(s), missing),
                     TotalUnits(ResultsOfStudent(s), missing))

C11_UnitsFromCourse ==
    \A s \in IdInputs("students") :
        calcGPA(localStorage, s) = WeightedAverage(s, 0)

\* What calcGPA computes: the same average, a Result whose course is not
\* stored counting as a course of 3 units.
GPAWithDefaultUnits ==
    \A s \in IdInputs("students") :
        calcGPA(localStorage, s) = WeightedAverage(s, DefaultUnits)

(***************************************************************************)
(* C12: the feedback collection holds at most one Feedback per userId; a   *)
(* submitFeedback call leaves exactly one record of its userId, carrying   *)
(* the values of the call: in the place of the user's earlier record when  *)
(* there is one, at the end otherwise; every other record stays as it is,  *)
(* so each record carries the values of its user's most recent call.       *)
(***************************************************************************)
FeedbackOf(fb, userId) == {i \in DOMAIN fb : fb[i].userId = userId}

CarriesValues(rec, f) ==
    /\ rec.userId = f.userId
    /\ rec.userName = f.userName
    /\ rec.role = f.role
    /\ rec.easeOfUse = f.easeOfUse
    /\ rec.speed = f.speed
    /\ rec.satisfaction = f.satisfaction
    /\ rec.comments = f.comments

C12_OneFeedbackPerUser ==
    /\ \A u \in Elems(users) : Cardinality(FeedbackOf(feedback, u.id)) <= 1
    /\ \A f \in FeedbackFields :
          LET r   == submitFeedback(localStorage, uidSeq, f)
              fb2 == get(r.ls, "feedback")
              old == FeedbackOf(feedback, f.userId)
              new == FeedbackOf(fb2, f.userId)
          IN  /\ Cardinality(new) = 1
              /\ \A i \in new : CarriesValues(fb2[i], f)
              /\ old # {} => new = old /\ Len(fb2) = Len(feedback)
              /\ old = {} => new = {Len(fb2)} /\ Len(fb2) = Len(feedback) + 1
              /\ \A k \in DOMAIN feedback : k \notin old => fb2[k] = feedback[k]

\* two users have a Feedback each, and one of them has submitted again with
\* another rating
C12_Witness ==
    /\ Len(feedback) = 2
    /\ uidSeq["feedback"] = 3
    /\ feedback[1].id = uid(uidSeq, "feedback")
    /\ feedback[1].easeOfUse # feedback[2].easeOfUse

(***************************************************************************)
(* C13: in every merged profile the id is the role record's id: for every  *)
(* stored Student studentFullProfile(its id) has the Student's id as id    *)
(* and is the Student's row of allStudentsWithProfiles; for every stored   *)
(* Lecturer lecturerFullProfile(its id) has the Lecturer's id as id and is *)
(* the Lecturer's row of allLecturersWithProfiles.                         *)
(***************************************************************************)
C13_RoleIdWins ==
    /\ \A i \in DOMAIN students :
          LET p == studentFullProfile(localStorage, students[i].id)
          IN  /\ p # Nothing
              /\ p[1].id = students[i].id
              /\ p[1] = allStudentsWithProfiles(localStorage)[i]
    /\ \A i \in DOMAIN lecturers :
          LET p == lecturerFullProfile(localStorage, lecturers[i].id)
          IN  /\ p # Nothing
              /\ p[1].id = lecturers[i].id
              /\ p[1] = allLecturersWithProfiles(localStorage)[i]

\* What the code does: the rows of allStudentsWithProfiles and
\* allLecturersWithProfiles carry the role record's id, the single-record
\* profiles carry the User's id, and they agree on every other property.
ProfileIds ==
    /\ \A i \in DOMAIN students :
          LET p   == studentFullProfile(localStorage, students[i].id)[1]
              row == allStudentsWithProfiles(localStorage)[i]
          IN  /\ row.id = students[i].id
              /\ p.id = students[i].userId
              /\ DOMAIN p = DOMAIN row
              /\ \A k \in DOMAIN p \ {"id"} : p[k] = row[k]
    /\ \A i \in DOMAIN lecturers :
          LET p   == lecturerFullProfile(localStorage, lecturers[i].id)[1]
              row == allLecturersWithProfiles(localStorage)[i]
          IN  /\ row.id = lecturers[i].id
              /\ p.id = lecturers[i].userId
              /\ DOMAIN p = DOMAIN row
              /\ \A k \in DOMAIN p \ {"id"} : p[k] = row[k]

(***************************************************************************)
(* C14: login(username, password, role) returns the first stored User      *)
(* whose username, password and role all equal the arguments, and none     *)
(* when there is no such User; login('admin','admin123','admin') returns   *)
(* the seeded admin on the fresh store and after every sequence of         *)
(* operations, and login('admin','wrong','admin') returns none.  login     *)
(* only reads: the operator yields a value and no storage.                 *)
(***************************************************************************)
Matching(un, pw, role) ==
    {i \in DOMAIN users : /\ users[i].username = un
                          /\ users[i].password = pw
                          /\ users[i].role = role}

C14_LoginExactMatch ==
    /\ \A un \in Usernames, pw \in LoginPasswords, role \in Roles :
          LET m == Matching(un, pw, role)
              r == login(localStorage, un, pw, role)
          IN  /\ m = {} => r = Nothing
              /\ m # {} => /\ Len(r) = 1
                           /\ \E i \in m : r[1] = users[i] /\ \A j \in m : i <= j
    /\ login(localStorage, "admin", "admin123", "admin") = <<AdminUser>>
    /\ login(localStorage, "admin", "wrong", "admin") = Nothing

\* a student has been registered: its login succeeds with its own role and
\* fails with another, and the admin login still succeeds
C14_Witness ==
    /\ \E u \in Elems(users) :
          /\ u.role = "student"
          /\ login(localStorage, u.username, u.password, "student") = <<u>>
          /\ login(localStorage, u.username, u.password, "lecturer") = Nothing
    /\ Len(courses) >= 1
    /\ login(localStorage, "admin", "admin123", "admin") = <<AdminUser>>

(***************************************************************************)
(* C15: requireAuth(roles) returns the session user and assigns no         *)
(* address exactly when a session is stored and roles is empty or holds    *)
(* the session user's role; otherwise it returns none and sends the        *)
(* browser to the entry point.  logout empties the session slot and sends  *)
(* the browser to the entry point: after it currentUser is none and every  *)
(* requireAuth returns none and redirects.  A step that changes the        *)
(* session or the address changes no stored collection.                    *)
(***************************************************************************)
SignedIn == "noun_session" \in DOMAIN sessionStorage

C15_Guard ==
    /\ \A roles \in RoleArrays :
          LET r  == requireAuth(sessionStorage, roles)
              ok == /\ SignedIn
                    /\ \/ roles = <<>>
                       \/ sessionStorage["noun_session"].role \in Elems(roles)
          IN  /\ r.ss = sessionStorage
              /\ ok => r.ret = <<sessionStorage["noun_session"]>> /\ r.href = Nothing
              /\ ~ok => r.ret = Nothing /\ r.href = <<"index.html">>
    /\ LET o == logout(sessionStorage)
       IN  /\ "noun_session" \notin DOMAIN o.ss
           /\ o.href = <<"index.html">>
           /\ currentUser(o.ss) = Nothing
           /\ \A roles \in RoleArrays :
                 /\ requireAuth(o.ss, roles).ret = Nothing
                 /\ requireAuth(o.ss, roles).href = <<"index.html">>

C15_RequireAuth ==
    /\ []C15_Guard
    /\ [][(sessionStorage' # sessionStorage \/ location' # location)
             => localStorage' = localStorage]_vars

\* a lecturer is signed in on a page behind requireAuth: requireAuth lets it
\* pass for ['lecturer','admin'] and for [], and turns it away for ['admin']
C15_Witness ==
    /\ SignedIn
    /\ sessionStorage["noun_session"].role = "lecturer"
    /\ location = "portal.html"
    /\ requireAuth(sessionStorage, <<"lecturer", "admin">>).ret # Nothing
    /\ requireAuth(sessionStorage, <<"admin">>).ret = Nothing

(***************************************************************************)
(* C16: boot on an empty store seeds exactly the admin User, an empty      *)
(* collection for every other entity and the boot flag; boot on the store  *)
(* any sequence of operations has left changes nothing.                    *)
(***************************************************************************)
SeededStorage ==
    [noun_users |-> <<AdminUser>>, noun_students |-> <<>>, noun_lecturers |-> <<>>,
     noun_courses |-> <<>>, noun_enrollments |-> <<>>, noun_results |-> <<>>,
     noun_materials |-> <<>>, noun_audit_trail |-> <<>>, noun_feedback |-> <<>>,
     noun_booted |-> "1"]

C16_BootIdempotent ==
    /\ boot(EmptyStorage) = SeededStorage
    /\ boot(boot(EmptyStorage)) = SeededStorage
    /\ boot(localStorage) = localStorage

\* records have been added to the seeded store, which a later boot leaves
C16_Witness ==
    /\ Len(users) >= 2
    /\ Len(courses) >= 1
    /\ Len(enrollments) >= 1
    /\ localStorage # SeededStorage
    /\ boot(localStorage) = localStorage

(***************************************************************************)
(* C17: getMaterialsForStudent(studentId) returns exactly the Materials    *)
(* whose courseId some Enrollment of that student carries, in stored       *)
(* order, and none for a student without Enrollments; after enroll or      *)
(* upsertResult for a student and a course every Material of the course    *)
(* is among them.                                                          *)
(***************************************************************************)
VisibleTo(ls, s) ==
    {i \in DOMAIN get(ls, "materials") :
        \E e \in Elems(get(ls, "enrollments")) :
            e.studentId = s /\ e.courseId = get(ls, "materials")[i].courseId}

\* seq holds the elements of all at the indexes is, in the order of all
IsSelection(seq, all, is) ==
    /\ Len(seq) = Cardinality(is)
    /\ \A i \in is : seq[Cardinality({j \in is : j <= i})] = all[i]

ShowsCourse(ls, s, c) ==
    \A m \in Elems(get(ls, "materials")) :
        m.courseId = c => m \in Elems(getMaterialsForStudent(ls, s))

C17_MaterialsOfEnrolledCourses ==
    /\ \A s \in IdInputs("students") :
          /\ IsSelection(getMaterialsForStudent(localStorage, s), materials,
                         VisibleTo(localStorage, s))
          /\ (\A e \in Elems(enrollments) : e.studentId # s)
                => getMaterialsForStudent(localStorage, s) = <<>>
    /\ \A s \in IdInputs("students"), c \in IdInputs("courses") :
          /\ \A sem \in Semesters :
                ShowsCourse(enroll(localStorage, uidSeq, s, c, sem).ls, s, c)
          /\ \A score \in Scores, actor \in Actors :
                ShowsCourse(upsertResult(localStorage, uidSeq, s, c, score, actor).ls, s, c)

\* a registered student is enrolled in a course with a Material and sees
\* it; somebody without Enrollments sees none
C17_Witness ==
    /\ \E st \in Elems(students) :
          /\ getMaterialsForStudent(localStorage, st.id) # <<>>
          /\ \E c \in Elems(courses) :
                getMaterialsForStudent(localStorage, st.id)[1].courseId = c.id
    /\ getMaterialsForStudent(localStorage, NoSuchId) = <<>>

(***************************************************************************)
(* C18: no step removes a User, Student, Lecturer, Course, Enrollment,     *)
(* Result or AuditEntry (every id stored before is stored after) or makes  *)
(* the Feedback records fewer; a step that removes a Material removes one  *)
(* Material, keeps the others in order and changes no other collection;    *)
(* deleteMaterial(id) leaves exactly the Materials of another id, in       *)
(* order, and every other collection and the boot flag as they are.        *)
(***************************************************************************)
KeptCollections ==
    {"users", "students", "lecturers", "courses", "enrollments", "results",
     "audit_trail"}

Without(seq, id) == {i \in DOMAIN seq : seq[i].id # id}

C18_DeleteMaterialOnly ==
    \A id \in IdInputs("materials") :
        LET r == deleteMaterial(localStorage, uidSeq, id)
        IN  /\ IsSelection(get(r.ls, "materials"), materials, Without(materials, id))
            /\ \A k \in DOMAIN localStorage :
                  k # "noun_materials" => r.ls[k] = localStorage[k]
            /\ DOMAIN r.ls = DOMAIN localStorage
            /\ r.n = uidSeq

C18_NothingElseDeleted ==
    /\ [][/\ \A k \in KeptCollections :
                IdsOf(localStorage, k) \subseteq IdsOf(localStorage', k)
          /\ Len(feedback') >= Len(feedback)
          /\ ~(IdsOf(localStorage, "materials") \subseteq IdsOf(localStorage', "materials"))
                => /\ \E id \in IdsOf(localStorage, "materials") :
                         IsSelection(materials', materials, Without(materials, id))
                   /\ \A k \in Collections \ {"materials"} :
                         get(localStorage', k) = get(localStorage, k)]_vars
    /\ []C18_DeleteMaterialOnly

\* a Material has been deleted from between two others, which stay in
\* order, beside a Course that stays
C18_Witness ==
    /\ Len(materials) = 2
    /\ uidSeq["materials"] = 3
    /\ materials[1].id = "id_materials_1"
    /\ materials[2].id = "id_materials_3"
    /\ Len(courses) = 1

(***************************************************************************)
(* C19: the foreign keys of the schema hold in every reachable state:      *)
(* every Enrollment, Result and AuditEntry carries the id of a stored      *)
(* Student and of a stored Course, and every Course with a non-empty       *)
(* lecturerId carries the id of a stored Lecturer.                         *)
(***************************************************************************)
RefersToStudentAndCourse(x) ==
    /\ x.studentId \in IdsOf(localStorage, "students")
    /\ x.courseId \in IdsOf(localStorage, "courses")

C19_ForeignKeys ==
    /\ \A e \in Elems(enrollments) : RefersToStudentAndCourse(e)
    /\ \A r \in Elems(results) : RefersToStudentAndCourse(r)
    /\ \A a \in Elems(audit_trail) : RefersToStudentAndCourse(a)
    /\ \A c \in Elems(courses) :
          c.lecturerId # "" => c.lecturerId \in IdsOf(localStorage, "lecturers")

\* each of the four operations stores an id that names no stored record
DanglingByEnroll ==
    \E e \in Elems(enrollments) : ~RefersToStudentAndCourse(e)
DanglingByUpsertResult ==
    \E r \in Elems(results) : ~RefersToStudentAndCourse(r)
DanglingLecturer ==
    \E c \in Elems(courses) :
        c.lecturerId # "" /\ c.lecturerId \notin IdsOf(localStorage, "lecturers")

(***************************************************************************)
(* C20: nothing isolates two contexts on one store, and the last writer of *)
(* a collection wins: every write of enrollments, results or audit_trail   *)
(* replaces the whole collection by the array its context read, with that  *)
(* context's one record pushed or rewritten, whatever has been stored      *)
(* since the read, so a record another context stored in between is lost.  *)
(* The steps of one call run without a step of another context in between  *)
(* leave what the call leaves as a single step.                            *)
(***************************************************************************)
\* new is old with one record pushed
IsPush(new, old) == Len(new) = Len(old) + 1 /\ IsPrefix(old, new)

\* new is old with the record of one index rewritten
IsRewrite(new, old) ==
    /\ Len(new) = Len(old)
    /\ \E i \in DOMAIN old : \A j \in DOMAIN old : j # i => new[j] = old[j]

WriterOf(k) ==
    CASE k = "enrollments" -> "enroll_set"
      [] k = "results"     -> "results_set"
      [] k = "audit_trail" -> "audit_set"

C20_WholeCollectionWrites ==
    \A k \in {"enrollments", "results", "audit_trail"} :
        get(localStorage', k) # get(localStorage, k) =>
            \E c \in Contexts :
                /\ ctx[c].pc = WriterOf(k)
                /\ ctx'[c] # ctx[c]
                /\ \/ IsPush(get(localStorage', k), ctx[c].snap)
                   \/ k = "results" /\ IsRewrite(get(localStorage', k), ctx[c].snap)

\* the steps of a call, one after the other on the current store
enrollSteps(ls, n, studentId, courseId) ==
    IF enrollFound(get(ls, "enrollments"), studentId, courseId)
    THEN [ls |-> ls, n |-> n]
    ELSE pushEnrollment(ls, n, get(ls, "enrollments"), studentId, courseId, "2024/2025")

upsertSteps(ls, n, studentId, courseId, score) ==
    LET w == writeResult(ls, n, get(ls, "results"), studentId, courseId, score, AdminUser)
        e == IF w.isNew THEN enrollSteps(w.ls, w.n, studentId, courseId)
             ELSE [ls |-> w.ls, n |-> w.n]
    IN  pushAuditEntry(e.ls, e.n, get(e.ls, "audit_trail"),
                       auditOfUpsert(studentId, courseId, w.oldGrade, score, AdminUser))

C20_SerialCallsAreAtomic ==
    \A pair \in PairInputs :
        /\ LET a == enroll(localStorage, uidSeq, pair[1], pair[2], "2024/2025")
               b == enrollSteps(localStorage, uidSeq, pair[1], pair[2])
           IN  a.ls = b.ls /\ a.n = b.n
        /\ \A score \in Scores :
              LET a == upsertResult(localStorage, uidSeq, pair[1], pair[2], score, AdminUser)
                  b == upsertSteps(localStorage, uidSeq, pair[1], pair[2], score)
              IN  a.ls = b.ls /\ a.n = b.n

C20_LastWriterWins ==
    /\ [][C20_WholeCollectionWrites]_vars
    /\ []C20_SerialCallsAreAtomic

\* each context has made one call and is out of it
AllDone == \A c \in Contexts : ctx[c].pc = "idle" /\ ctx[c].calls = 1

\* both contexts have finished an enroll call, for different pairs, and one
\* Enrollment is stored: the other was lost
C20_Witness ==
    /\ AllDone
    /\ \A c \in Contexts : ctx[c].op = "enroll"
    /\ ctx[1].studentId # ctx[2].studentId
    /\ Len(enrollments) = 1

\* both contexts have finished an upsertResult call, for different pairs:
\* two Results are stored and one audit entry
LostAuditEntry ==
    /\ AllDone
    /\ \A c \in Contexts : ctx[c].op = "upsert"
    /\ Len(results) = 2
    /\ Len(audit_trail) = 1

\* ... or a Result is stored that no audit entry is about
ResultWithoutAuditEntry ==
    /\ AllDone
    /\ \A c \in Contexts : ctx[c].op = "upsert"
    /\ \E r \in Elems(results) :
          \A a \in Elems(audit_trail) : ~SamePair(a, r.studentId, r.courseId)

=============================================================================
